---- MODULE Spec2Model ----
(***************************************************************************)
(* Rule core of the social-activity platform (core/models.py,              *)
(* core/views.py, core/signals.py, core/forms.py): connections, blocks,    *)
(* activities, ratings and the derived profile statistics.                 *)
(*                                                                         *)
(* Tables are sequences of rows in creation order (oldest first), so that  *)
(* duplicate rows are representable and "ordering = -created_at" /         *)
(* ".first()" can be computed as the code computes it.                     *)
(***************************************************************************)
EXTENDS Integers, Sequences, FiniteSets, TLC

(* ------------------------------ bounds -------------------------------- *)
MaxUsers == 4
MaxNow == 2
MaxActivities == 1
MaxBlocks == 1
MaxLedgerBlocks == 2
MaxConnections == 2
MaxRatings == 3
MaxReports == 2

(* ticks per calendar day: an instant is date * DayLen + time *)
DayLen == 2

\* the ids a request may name; the last one is registered only under InitAll
UserIds == 1..MaxUsers
ActivityIds == 1..MaxActivities
Dates == 0..(MaxNow \div DayLen)
Times == 0..(DayLen - 1)

(* raw POST values of the "score" field, and what int() makes of them *)
ScoreInputs == {"", "x", "0", "4", "5", "6"}
Numeric(s) == s \in {"0", "4", "5", "6"}
IntOf(s) == CASE s = "0" -> 0 [] s = "4" -> 4 [] s = "5" -> 5 [] s = "6" -> 6

\* ids start at 1: 0 stands for the id argument a URL pattern does not have
NoUser == 0
NoActivity == 0

VARIABLES
    now,          \* timezone.now(), in ticks
    users,        \* ids of the User rows
    profiles,     \* Profile rows
    activities,   \* Activity rows; the id of a row is its index
    connections,  \* Connection rows
    blocks,       \* Block rows
    ratings,      \* Rating rows (committed)
    reports,      \* Report rows
    result,       \* the request handled one at a time and its response
    reqs          \* the requests handled concurrently, one per worker

tables == <<users, profiles, activities, connections, blocks, ratings, reports>>
vars == <<now, users, profiles, activities, connections, blocks, ratings, reports, result, reqs>>

(* ----------------------------- helpers -------------------------------- *)
RECURSIVE SeqSum(_)
SeqSum(s) == IF s = <<>> THEN 0 ELSE Head(s) + SeqSum(Tail(s))

RECURSIVE SelectRows(_, _)
SelectRows(s, keep) ==
    IF s = <<>> THEN <<>>
    ELSE IF Head(s) \in keep THEN <<Head(s)>> \o SelectRows(Tail(s), keep)
         ELSE SelectRows(Tail(s), keep)

Rows(s) == {s[i] : i \in DOMAIN s}

Outcome(op, actor, target, act, score, out) ==
    [op |-> op, actor |-> actor, target |-> target, activity |-> act,
     score |-> score, outcome |-> out, deleted |-> 0, reason |-> "", method |-> "POST"]

NoResult == Outcome("none", NoUser, NoUser, NoActivity, "", {})

\* the workers that handle requests concurrently, and a worker at rest
NumProcs == 2
Procs == 1..NumProcs
IdleReq == [pc |-> "idle"]

(* ------------------------------ Profile ------------------------------- *)
DefaultProfile(u) == [user |-> u, city |-> "", average_rating |-> 0, total_ratings |-> 0]

\* the value of "city" that ProfileUpdateForm is posted with
Cities == {"Pune"}

\* hasattr(user, 'profile')
HasProfile(u) == \E i \in DOMAIN profiles : profiles[i].user = u

\* Model.save() always inserting (force_insert) instead of updating
ProfileModelSave_AlwaysInsert(ps, row) == Append(ps, row)

\* Model.save() of a loaded Profile: UPDATE of its row, INSERT only when no
\* row of the instance is stored
ProfileModelSave(ps, row) ==
    IF \E i \in DOMAIN ps : ps[i].user = row.user
    THEN [i \in DOMAIN ps |-> IF ps[i].user = row.user THEN row ELSE ps[i]]
    ELSE Append(ps, row)

\* signals.create_user_profile: Profile.objects.get_or_create(user=instance)
\* for a User that was just created
create_user_profile(ps, u, created) ==
    IF created /\ ~(\E i \in DOMAIN ps : ps[i].user = u)
    THEN Append(ps, DefaultProfile(u)) ELSE ps

\* signals.save_user_profile: instance.profile.save() if there is a profile
save_user_profile(ps, u) ==
    IF \E i \in DOMAIN ps : ps[i].user = u
    THEN ProfileModelSave(ps, ps[CHOOSE i \in DOMAIN ps : ps[i].user = u])
    ELSE ps

\* the two post_save receivers of User, in the order they are connected
UserPostSave(ps, u, created) == save_user_profile(create_user_profile(ps, u, created), u)

\* round(x, 2) of x = num / den, in hundredths; ties go to the even hundredth
Round2(num, den) ==
    LET q == (100 * num) \div den
        r == (100 * num) % den
    IN  IF 2 * r < den THEN q
        ELSE IF 2 * r > den THEN q + 1
        ELSE IF q % 2 = 0 THEN q ELSE q + 1

\* Rating.objects.filter(rated_user=u).aggregate(Avg('score'), Count('id'))
RatingStats(rs, u) ==
    LET scores == [i \in 1..Len(SelectRows(rs, {r \in Rows(rs) : r.rated_user = u}))
                     |-> SelectRows(rs, {r \in Rows(rs) : r.rated_user = u})[i].score]
    IN  [total_count |-> Len(scores),
         avg_score |-> IF Len(scores) = 0 THEN -1 ELSE Round2(SeqSum(scores), Len(scores))]

\* update_rating_stats truncating the average instead of rounding it
update_rating_stats_Truncating(ps, rs, u) ==
    LET mine == SelectRows(rs, {r \in Rows(rs) : r.rated_user = u})
        total == SeqSum([i \in DOMAIN mine |-> mine[i].score])
    IN  [i \in DOMAIN ps |->
            IF ps[i].user = u
            THEN [ps[i] EXCEPT
                    !.average_rating = IF Len(mine) = 0 THEN 0 ELSE (100 * total) \div Len(mine),
                    !.total_ratings = Len(mine)]
            ELSE ps[i]]

\* the assignments and the save(update_fields=...) of update_rating_stats
WriteStats(ps, u, stats) ==
    [i \in DOMAIN ps |->
        IF ps[i].user = u
        THEN [ps[i] EXCEPT
                !.average_rating = IF stats.avg_score # -1 THEN stats.avg_score ELSE 0,
                !.total_ratings = stats.total_count]
        ELSE ps[i]]

\* update_rating_stats adding the aggregated count to the stored one
update_rating_stats_Accumulating(ps, rs, u) ==
    [i \in DOMAIN ps |->
        IF ps[i].user = u
        THEN [ps[i] EXCEPT
                !.average_rating = IF RatingStats(rs, u).avg_score # -1
                                   THEN RatingStats(rs, u).avg_score ELSE 0,
                !.total_ratings = @ + RatingStats(rs, u).total_count]
        ELSE ps[i]]

\* Profile.update_rating_stats for the profile of u, reading the ratings rs
update_rating_stats(ps, rs, u) == WriteStats(ps, u, RatingStats(rs, u))

\* post_save receiver of Rating
update_rated_user_stats(ps, rs, u) ==
    IF \E i \in DOMAIN ps : ps[i].user = u THEN update_rating_stats(ps, rs, u) ELSE ps

(* ------------------------------ Activity ------------------------------ *)
Exists(id) == id \in DOMAIN activities

\* Activity.is_past
is_past(a) == a.date * DayLen + a.time < now

\* Activity.save flipping the flag of a past activity, whatever it was
ActivitySave_Toggling(a) == IF is_past(a) THEN [a EXCEPT !.is_active = ~a.is_active] ELSE a

\* Activity.save without the deactivation of line 149
ActivitySave_NoDeactivation(a) == a

\* Activity.save: deactivate a past activity, then store the row
ActivitySave(a) == IF is_past(a) /\ a.is_active THEN [a EXCEPT !.is_active = FALSE] ELSE a

(* ------------------------------- Block -------------------------------- *)
Blocked(x, y) == \E i \in DOMAIN blocks : blocks[i].blocker = x /\ blocks[i].blocked_user = y

\* the block test looking only at the blocks the requester made
is_blocked_either_way_OneWay(x, y) == Blocked(x, y)

\* the Q(blocker=x, blocked_user=y) | Q(blocker=y, blocked_user=x) filter
is_blocked_either_way(x, y) == Blocked(x, y) \/ Blocked(y, x)

(* ---------------------------- Connection ------------------------------ *)
Pending == "Pending"
Accepted == "Accepted"
Rejected == "Rejected"
ConnectionStatus == {Pending, Accepted, Rejected}

\* the lookup matching only rows sent by x
PairRows_SameDirection(cs, x, y) ==
    {i \in DOMAIN cs : cs[i].sender = x /\ cs[i].receiver = y}

\* rows between x and y "in ANY direction", as positions in the table
PairRows(cs, x, y) ==
    {i \in DOMAIN cs : \/ cs[i].sender = x /\ cs[i].receiver = y
                       \/ cs[i].sender = y /\ cs[i].receiver = x}

\* .first() under ordering = ["-created_at"]: the newest matching row, 0 if none
FirstRow(cs, x, y) ==
    IF PairRows(cs, x, y) = {} THEN 0
    ELSE CHOOSE i \in PairRows(cs, x, y) : \A j \in PairRows(cs, x, y) : j <= i

\* Connection.Meta.constraints, for the row at position i holding row c
ConnectionConstraintsOk(cs, i, c) ==
    /\ c.sender # c.receiver                                  \* prevent_self_connection
    /\ \A j \in DOMAIN cs :                                   \* unique_connection_pair
          j # i => ~(cs[j].sender = c.sender /\ cs[j].receiver = c.receiver)

(* ----------------------------- the views ------------------------------ *)

\* forms.ActivityForm.clean_date
clean_date(date) == ~(date < now \div DayLen)

\* views.create_activity (POST)
create_activity(u, date, time) ==
    /\ Len(activities) < MaxActivities
    /\ IF clean_date(date)
       THEN /\ activities' = Append(activities,
                    ActivitySave([creator |-> u, date |-> date, time |-> time,
                                  is_active |-> TRUE, participants |-> {}]))
            /\ result' = Outcome("create_activity", u, NoUser, Len(activities) + 1, "", {"Ok"})
       ELSE /\ UNCHANGED activities
            /\ result' = Outcome("create_activity", u, NoUser, NoActivity, "", {"InvalidInput"})
    /\ UNCHANGED <<now, users, reports, profiles, connections, blocks, ratings>>

\* Activity.save of a stored activity that was not edited
resave_activity(id) ==
    /\ Exists(id)
    /\ activities' = [activities EXCEPT ![id] = ActivitySave(@)]
    /\ result' = Outcome("resave_activity", NoUser, NoUser, id, "", {"Ok"})
    /\ UNCHANGED <<now, users, reports, profiles, connections, blocks, ratings>>

\* join_activity without the own-activity test of lines 153-155
JoinOutcome_NoCreatorCheck(u, id) ==
    IF ~Exists(id) THEN "NotFound"
    ELSE IF is_blocked_either_way(u, activities[id].creator) THEN "Forbidden"
    ELSE IF ~activities[id].is_active THEN "InvalidState_Inactive"
    ELSE IF is_past(activities[id]) THEN "InvalidState_Past"
    ELSE IF u \in activities[id].participants THEN "AlreadyExists"
    ELSE "Ok"

\* join_activity relying on the stored flag, without the is_past test of line 148
JoinOutcome_FlagOnly(u, id) ==
    IF ~Exists(id) THEN "NotFound"
    ELSE IF is_blocked_either_way(u, activities[id].creator) THEN "Forbidden"
    ELSE IF ~activities[id].is_active THEN "InvalidState_Inactive"
    ELSE IF activities[id].creator = u THEN "InvalidOperation"
    ELSE IF u \in activities[id].participants THEN "AlreadyExists"
    ELSE "Ok"

\* join_activity with the own-activity test of line 153 moved to the front
JoinOutcome_SelfFirst(u, id) ==
    IF ~Exists(id) THEN "NotFound"
    ELSE IF activities[id].creator = u THEN "InvalidOperation"
    ELSE IF is_blocked_either_way(u, activities[id].creator) THEN "Forbidden"
    ELSE IF ~activities[id].is_active THEN "InvalidState_Inactive"
    ELSE IF is_past(activities[id]) THEN "InvalidState_Past"
    ELSE IF u \in activities[id].participants THEN "AlreadyExists"
    ELSE "Ok"

\* the outcome of views.join_activity: its checks in the order of the code
JoinOutcome(u, id) ==
    IF ~Exists(id) THEN "NotFound"
    ELSE IF is_blocked_either_way(u, activities[id].creator) THEN "Forbidden"
    ELSE IF ~activities[id].is_active THEN "InvalidState_Inactive"
    ELSE IF is_past(activities[id]) THEN "InvalidState_Past"
    ELSE IF activities[id].creator = u THEN "InvalidOperation"
    ELSE IF u \in activities[id].participants THEN "AlreadyExists"
    ELSE "Ok"

\* views.join_activity
join_activity(u, id) ==
    /\ IF JoinOutcome(u, id) = "Ok"
       THEN activities' = [activities EXCEPT ![id].participants = @ \cup {u}]
       ELSE UNCHANGED activities
    /\ result' = Outcome("join_activity", u, NoUser, id, "", {JoinOutcome(u, id)})
    /\ UNCHANGED <<now, users, reports, profiles, connections, blocks, ratings>>

\* send_connection without the block test of lines 176-182
SendOutcome_NoBlockCheck(cs, u, r) ==
    LET e == FirstRow(cs, u, r)
    IN  IF r \notin users THEN "NotFound"
        ELSE IF u = r THEN "InvalidOperation"
        ELSE IF e # 0 /\ cs[e].status = Accepted THEN "AlreadyConnected"
        ELSE IF e # 0 /\ cs[e].status = Pending
             THEN IF cs[e].sender = u THEN "RequestAlreadySent" ELSE "IncomingRequestExists"
        ELSE IF e # 0 /\ cs[e].status = Rejected THEN "Reset"
        ELSE "Create"

\* send_connection without the self-connection test of lines 185-187
SendOutcome_NoSelfCheck(cs, u, r) ==
    LET e == FirstRow(cs, u, r)
    IN  IF r \notin users THEN "NotFound"
        ELSE IF is_blocked_either_way(u, r) THEN "Forbidden"
        ELSE IF e # 0 /\ cs[e].status = Accepted THEN "AlreadyConnected"
        ELSE IF e # 0 /\ cs[e].status = Pending
             THEN IF cs[e].sender = u THEN "RequestAlreadySent" ELSE "IncomingRequestExists"
        ELSE IF e # 0 /\ cs[e].status = Rejected THEN "Reset"
        ELSE "Create"

\* the outcome of views.send_connection, reading the connection table cs
SendOutcome(cs, u, r) ==
    LET e == FirstRow(cs, u, r)
    IN  IF r \notin users THEN "NotFound"
        ELSE IF is_blocked_either_way(u, r) THEN "Forbidden"
        ELSE IF u = r THEN "InvalidOperation"
        ELSE IF e # 0 /\ cs[e].status = Accepted THEN "AlreadyConnected"
        ELSE IF e # 0 /\ cs[e].status = Pending
             THEN IF cs[e].sender = u THEN "RequestAlreadySent" ELSE "IncomingRequestExists"
        ELSE IF e # 0 /\ cs[e].status = Rejected THEN "Reset"
        ELSE "Create"

\* the reset of a Rejected row setting only its status (without lines 211-212)
SendWrite_KeepDirection(cs, e, u, r) ==
    IF e # 0
    THEN IF e \in DOMAIN cs THEN [cs EXCEPT ![e].status = Pending] ELSE cs
    ELSE IF ConnectionConstraintsOk(cs, 0, [sender |-> u, receiver |-> r, status |-> Pending])
         THEN Append(cs, [sender |-> u, receiver |-> r, status |-> Pending]) ELSE cs

\* the write of views.send_connection: existing_connection.save() of the
\* row at position e, or Connection.objects.create when e = 0
SendWrite(cs, e, u, r) ==
    LET c == [sender |-> u, receiver |-> r, status |-> Pending]
    IN  IF e # 0
        THEN IF e \in DOMAIN cs /\ ConnectionConstraintsOk(cs, e, c)
             THEN [cs EXCEPT ![e] = c] ELSE cs
        ELSE IF ConnectionConstraintsOk(cs, 0, c) THEN Append(cs, c) ELSE cs

\* views.send_connection
send_connection(u, r) ==
    LET out == SendOutcome(connections, u, r)
        e == FirstRow(connections, u, r)
        cs == SendWrite(connections, e, u, r)
    IN  /\ out = "Create" => Len(connections) < MaxConnections
        /\ IF out \in {"Create", "Reset"}
           THEN /\ connections' = cs
                /\ result' = Outcome("send_connection", u, r, NoActivity, "",
                                     IF cs = connections THEN {"ServerError"} ELSE {"Ok"})
           ELSE /\ UNCHANGED connections
                /\ result' = Outcome("send_connection", u, r, NoActivity, "", {out})
        /\ UNCHANGED <<now, users, reports, profiles, activities, blocks, ratings>>

\* accept_connection / reject_connection without the status test (238, 262)
DecideOutcome_NoStatusCheck(u, i) ==
    IF i \notin DOMAIN connections THEN "NotFound"
    ELSE IF connections[i].receiver # u THEN "Forbidden"
    ELSE "Ok"

\* the two tests of accept_connection / reject_connection in the other order
DecideOutcome_StatusFirst(u, i) ==
    IF i \notin DOMAIN connections THEN "NotFound"
    ELSE IF connections[i].status # Pending THEN "InvalidState"
    ELSE IF connections[i].receiver # u THEN "Forbidden"
    ELSE "Ok"

\* the outcome of accept_connection / reject_connection on the row at position i
DecideOutcome(u, i) ==
    IF i \notin DOMAIN connections THEN "NotFound"
    ELSE IF connections[i].receiver # u THEN "Forbidden"
    ELSE IF connections[i].status # Pending THEN "InvalidState"
    ELSE "Ok"

\* views.accept_connection
accept_connection(u, i) ==
    /\ IF DecideOutcome(u, i) = "Ok"
       THEN connections' = [connections EXCEPT ![i].status = Accepted]
       ELSE UNCHANGED connections
    /\ result' = Outcome("accept_connection", u, NoUser, i, "", {DecideOutcome(u, i)})
    /\ UNCHANGED <<now, users, reports, profiles, activities, blocks, ratings>>

\* views.reject_connection
reject_connection(u, i) ==
    /\ IF DecideOutcome(u, i) = "Ok"
       THEN connections' = [connections EXCEPT ![i].status = Rejected]
       ELSE UNCHANGED connections
    /\ result' = Outcome("reject_connection", u, NoUser, i, "", {DecideOutcome(u, i)})
    /\ UNCHANGED <<now, users, reports, profiles, activities, blocks, ratings>>

\* block_user without the duplicate test of lines 382-387
BlockOutcome_NoDuplicateCheck(u, t) ==
    IF t \notin users THEN "NotFound"
    ELSE IF u = t THEN "InvalidOperation"
    ELSE "Ok"

\* the outcome of views.block_user
BlockOutcome(u, t) ==
    IF t \notin users THEN "NotFound"
    ELSE IF u = t THEN "InvalidOperation"
    ELSE IF Blocked(u, t) THEN "AlreadyExists"
    ELSE "Ok"

\* the delete removing only the rows sent by the blocker
DeleteConnections_SentOnly(cs, u, t) ==
    SelectRows(cs, {c \in Rows(cs) : ~(c.sender = u /\ c.receiver = t)})

\* Connection.objects.filter(Q(u -> t) | Q(t -> u)).delete()
DeleteConnections(cs, u, t) ==
    SelectRows(cs, {c \in Rows(cs) : ~(\/ c.sender = u /\ c.receiver = t
                                       \/ c.sender = t /\ c.receiver = u)})

\* views.block_user
block_user(u, t) ==
    /\ IF BlockOutcome(u, t) = "Ok"
       THEN /\ connections' = DeleteConnections(connections, u, t)
            /\ blocks' = Append(blocks, [blocker |-> u, blocked_user |-> t])
       ELSE UNCHANGED <<connections, blocks>>
    /\ result' = [Outcome("block_user", u, t, NoActivity, "", {BlockOutcome(u, t)})
                    EXCEPT !.deleted = IF BlockOutcome(u, t) = "Ok"
                                       THEN Len(connections) - Len(DeleteConnections(connections, u, t))
                                       ELSE 0]
    /\ UNCHANGED <<now, users, reports, profiles, activities, ratings>>

\* unblock_user deleting the Block rows of the pair in both directions
unblock_user_EitherWay(u, t) ==
    /\ IF t \in users
       THEN blocks' = SelectRows(blocks, {b \in Rows(blocks) :
                                            ~(\/ b.blocker = u /\ b.blocked_user = t
                                              \/ b.blocker = t /\ b.blocked_user = u)})
       ELSE UNCHANGED blocks
    /\ result' = Outcome("unblock_user", u, t, NoActivity, "",
                         IF t \in users THEN {"Ok"} ELSE {"NotFound"})
    /\ UNCHANGED <<now, users, reports, profiles, activities, connections, ratings>>

\* views.unblock_user
unblock_user(u, t) ==
    /\ IF t \in users
       THEN blocks' = SelectRows(blocks, {b \in Rows(blocks) :
                                            ~(b.blocker = u /\ b.blocked_user = t)})
       ELSE UNCHANGED blocks
    /\ result' = Outcome("unblock_user", u, t, NoActivity, "",
                         IF t \in users THEN {"Ok"} ELSE {"NotFound"})
    /\ UNCHANGED <<now, users, reports, profiles, activities, connections, ratings>>

\* views.register (POST): a valid form (a username not taken) saves a new
\* User, whose post_save receivers run
register(u) ==
    /\ IF u \notin users
       THEN /\ users' = users \cup {u}
            /\ profiles' = UserPostSave(profiles, u, TRUE)
            /\ result' = Outcome("register", u, NoUser, NoActivity, "", {"Ok"})
       ELSE /\ UNCHANGED <<users, profiles>>
            /\ result' = Outcome("register", u, NoUser, NoActivity, "", {"InvalidInput"})
    /\ UNCHANGED <<now, activities, connections, blocks, ratings, reports>>

\* views.login_view (POST) with valid credentials: login() saves the User
\* for last_login, and the post_save receivers run with created = False
login_view(u) ==
    /\ profiles' = UserPostSave(profiles, u, FALSE)
    /\ result' = Outcome("login_view", u, NoUser, NoActivity, "", {"Ok"})
    /\ UNCHANGED <<now, users, activities, connections, blocks, ratings, reports>>

\* views.edit_profile (POST) handled in one piece
edit_profile(u, city) ==
    /\ profiles' = ProfileModelSave(profiles,
                       [profiles[CHOOSE i \in DOMAIN profiles : profiles[i].user = u]
                          EXCEPT !.city = city])
    /\ result' = Outcome("edit_profile", u, NoUser, NoActivity, "", {"Ok"})
    /\ UNCHANGED <<now, users, activities, connections, blocks, ratings, reports>>

(* ------------------------------- Report ------------------------------ *)
\* raw values of the "reason" field of a POST, and the methods of a request
ReasonInputs == {"", "  ", "spam", " spam "}
Methods == {"GET", "POST"}

\* str.strip of a posted reason
Strip(s) == CASE s = "" -> "" [] s = "  " -> "" [] s = "spam" -> "spam" [] s = " spam " -> "spam"

\* a Report by u against t is stored
Reported(u, t) ==
    \E i \in DOMAIN reports : reports[i].reporter = u /\ reports[i].reported_user = t

\* report_user without the duplicate test of lines 345-350
ReportOutcome_NoDuplicateCheck(u, t, reason, method) ==
    IF t \notin users THEN "NotFound"
    ELSE IF u = t THEN "InvalidOperation"
    ELSE IF method # "POST" THEN "Form"
    ELSE IF Strip(reason) = "" THEN "InvalidInput"
    ELSE "Ok"

\* the outcome of views.report_user: its tests in the order of the code
ReportOutcome(u, t, reason, method) ==
    IF t \notin users THEN "NotFound"
    ELSE IF u = t THEN "InvalidOperation"
    ELSE IF Reported(u, t) THEN "AlreadyExists"
    ELSE IF method # "POST" THEN "Form"
    ELSE IF Strip(reason) = "" THEN "InvalidInput"
    ELSE "Ok"

\* views.report_user
report_user(u, t, reason, method) ==
    /\ IF ReportOutcome(u, t, reason, method) = "Ok"
       THEN reports' = Append(reports, [reporter |-> u, reported_user |-> t,
                                        reason |-> Strip(reason)])
       ELSE UNCHANGED reports
    /\ result' = [Outcome("report_user", u, t, NoActivity, "",
                          {ReportOutcome(u, t, reason, method)})
                    EXCEPT !.reason = reason, !.method = method]
    /\ UNCHANGED <<now, users, profiles, activities, connections, blocks, ratings>>

\* the clock: timezone.now() advances between requests
Tick ==
    /\ now < MaxNow
    /\ now' = now + 1
    /\ UNCHANGED <<tables, result, reqs>>

\* the response of the last request is delivered to its caller
Respond ==
    /\ result # NoResult
    /\ result' = NoResult
    /\ UNCHANGED <<now, tables, reqs>>

\* no response is outstanding: the next request is taken
Idle == result = NoResult

(* ------------------------------- Rating ------------------------------- *)
\* a Rating by this rater for this activity is stored in rs
RatingExists(rs, rater, act) ==
    \E i \in DOMAIN rs : rs[i].rater = rater /\ rs[i].activity = act

\* Rating.Meta without the UniqueConstraint on (rater, activity)
RatingUniqueConflict_Dropped(r, x) == FALSE

\* unique_rating_per_activity_per_rater: the rows r and x collide
RatingUniqueConflict(r, x) == x.rater = r.rater /\ x.activity = r.activity

ViolatesUnique(r, rs) == \E i \in DOMAIN rs : RatingUniqueConflict(r, rs[i])

\* the checks of views.rate_user before the transaction, in the order of the
\* code, reading the rating table rs; "Pass" when all of them pass
RateViewOutcome(rs, u, t, id, s) ==
    IF s = "" THEN "ScoreRequired"
    ELSE IF ~Numeric(s) THEN "InvalidScore"
    ELSE IF t \notin users \/ ~Exists(id) THEN "OperationFailed"
    ELSE IF u = t THEN "SelfRatingForbidden"
    ELSE IF u \notin activities[id].participants THEN "NotAParticipant"
    ELSE IF ~is_past(activities[id]) THEN "ActivityNotCompleted"
    ELSE IF RatingExists(rs, u, id) THEN "DuplicateRating"
    ELSE IF Blocked(u, t) \/ Blocked(t, u) THEN "BlockedRelationship"
    ELSE "Pass"

\* Rating.clean without its check 2, "rated user must be the creator"
RatingClean_NoCreatorCheck(r) ==
    LET a == activities[r.activity]
    IN  IF r.rater = a.creator THEN {"CreatorCannotRate"}
        ELSE IF r.rater \notin a.participants THEN {"NotAParticipant"}
        ELSE IF ~is_past(a) THEN {"ActivityNotCompleted"}
        ELSE IF Blocked(r.rater, a.creator) \/ Blocked(a.creator, r.rater)
             THEN {"BlockedRelationship"}
        ELSE {}

\* Rating.clean: the first check that raises
RatingClean(r) ==
    LET a == activities[r.activity]
    IN  IF r.rater = a.creator THEN {"CreatorCannotRate"}
        ELSE IF r.rated_user # a.creator THEN {"OnlyCreatorCanBeRated"}
        ELSE IF r.rater \notin a.participants THEN {"NotAParticipant"}
        ELSE IF ~is_past(a) THEN {"ActivityNotCompleted"}
        ELSE IF Blocked(r.rater, a.creator) \/ Blocked(a.creator, r.rater)
             THEN {"BlockedRelationship"}
        ELSE {}

\* Rating.full_clean without the two validators of Rating.score
RatingFullClean_NoValidators(r, rs) ==
    RatingClean(r)
    \cup (IF ViolatesUnique(r, rs) THEN {"DuplicateRating"} ELSE {})
    \cup (IF r.rater = r.rated_user THEN {"SelfRatingForbidden"} ELSE {})

\* Rating.full_clean: field validators, clean() and the constraints of
\* Rating.Meta are all run and their errors collected
RatingFullClean(r, rs) ==
    (IF r.score < 1 \/ r.score > 5 THEN {"InvalidScore"} ELSE {})
    \cup RatingClean(r)
    \cup (IF ViolatesUnique(r, rs) THEN {"DuplicateRating"} ELSE {})
    \cup (IF r.rater = r.rated_user THEN {"SelfRatingForbidden"} ELSE {})

\* Rating.Meta.constraints as the database enforces them on INSERT
RatingConstraintsOk(r, rs) ==
    /\ ~ViolatesUnique(r, rs)                     \* unique_rating_per_activity_per_rater
    /\ r.rater # r.rated_user                     \* prevent_self_rating
    /\ r.score >= 1 /\ r.score <= 5               \* score_range_1_to_5

\* Rating.save: full_clean, then INSERT; TRUE when the row is stored
RatingSaveOk(r, rs) == RatingFullClean(r, rs) = {} /\ RatingConstraintsOk(r, rs)

\* the profile writes of one rating: the post_save receiver, then the
\* explicit call of the view (guarded by hasattr(rated_user, 'profile'))
StatsAfterRating(ps, rs, t) ==
    update_rated_user_stats(update_rated_user_stats(ps, rs, t), rs, t)

\* views.rate_user (the definition bound to the URL: the second one)
rate_user(u, t, id, s) ==
    LET v == RateViewOutcome(ratings, u, t, id, s)
        r == [rater |-> u, rated_user |-> t, activity |-> id, score |-> IntOf(s)]
    IN  /\ (v = "Pass" /\ RatingFullClean(r, ratings) = {}) => Len(ratings) < MaxRatings
        /\ IF v # "Pass"
           THEN /\ UNCHANGED <<ratings, profiles>>
                /\ result' = Outcome("rate_user", u, t, id, s, {v})
           ELSE IF RatingFullClean(r, ratings) # {}
           THEN /\ UNCHANGED <<ratings, profiles>>
                /\ result' = Outcome("rate_user", u, t, id, s, RatingFullClean(r, ratings))
           ELSE IF ~RatingSaveOk(r, ratings)
           THEN /\ UNCHANGED <<ratings, profiles>>
                /\ result' = Outcome("rate_user", u, t, id, s, {"OperationFailed"})
           ELSE /\ ratings' = Append(ratings, r)
                /\ profiles' = StatsAfterRating(profiles, Append(ratings, r), t)
                /\ result' = Outcome("rate_user", u, t, id, s, {"Ok"})
        /\ UNCHANGED <<now, users, reports, activities, connections, blocks>>

(* --------------------------- specifications --------------------------- *)
\* the users 1..n are registered, each with the Profile that
\* signals.create_user_profile made; nothing else is stored
InitWith(n) ==
    /\ now = 0
    /\ users = 1..n
    /\ profiles = [i \in 1..n |-> DefaultProfile(i)]
    /\ activities = <<>>
    /\ connections = <<>>
    /\ blocks = <<>>
    /\ ratings = <<>>
    /\ reports = <<>>
    /\ result = NoResult
    /\ reqs = [p \in Procs |-> IdleReq]

Init == InitWith(MaxUsers - 1)

InitAll == InitWith(MaxUsers)

\* no user is registered yet
InitEmpty == InitWith(0)

\* a state SpecRatings reaches: the last registered user created an activity
\* at instant 0, all the others joined it, and the clock moved on by one tick
InitCompleted ==
    /\ now = 1
    /\ users = 1..(MaxUsers - 1)
    /\ profiles = [i \in 1..(MaxUsers - 1) |-> DefaultProfile(i)]
    /\ activities = <<[creator |-> MaxUsers - 1, date |-> 0, time |-> 0,
                       is_active |-> TRUE, participants |-> 1..(MaxUsers - 2)]>>
    /\ connections = <<>>
    /\ blocks = <<>>
    /\ ratings = <<>>
    /\ reports = <<>>
    /\ result = NoResult
    /\ reqs = [p \in Procs |-> IdleReq]

CreateActivity == Idle /\ UNCHANGED reqs /\ \E u \in users, d \in Dates, t \in Times : create_activity(u, d, t)
ResaveActivity == Idle /\ UNCHANGED reqs /\ \E id \in ActivityIds : resave_activity(id)
JoinActivity == Idle /\ UNCHANGED reqs /\ \E u \in users, id \in ActivityIds : join_activity(u, id)
SendConnection == Idle /\ UNCHANGED reqs /\ \E u \in users, r \in UserIds : send_connection(u, r)
AcceptConnection == Idle /\ UNCHANGED reqs /\ \E u \in users, i \in 1..MaxConnections : accept_connection(u, i)
RejectConnection == Idle /\ UNCHANGED reqs /\ \E u \in users, i \in 1..MaxConnections : reject_connection(u, i)
\* a block is stored only while the table holds fewer than MaxBlocks rows
BlockUser == Idle /\ UNCHANGED reqs /\ \E u \in users, t \in UserIds :
                 (BlockOutcome(u, t) = "Ok" => Len(blocks) < MaxBlocks) /\ block_user(u, t)
\* the same with room for MaxLedgerBlocks rows
BlockUserLedger == Idle /\ UNCHANGED reqs /\ \E u \in users, t \in UserIds :
                       (BlockOutcome(u, t) = "Ok" => Len(blocks) < MaxLedgerBlocks)
                       /\ block_user(u, t)
UnblockUser == Idle /\ UNCHANGED reqs /\ \E u \in users, t \in UserIds : unblock_user(u, t)
Register == Idle /\ UNCHANGED reqs /\ \E u \in UserIds : register(u)
LoginView == Idle /\ UNCHANGED reqs /\ \E u \in users : login_view(u)
EditProfile == Idle /\ UNCHANGED reqs /\ \E u \in users, city \in Cities : edit_profile(u, city)
\* a report is stored only while the table holds fewer than MaxReports rows
ReportUser == Idle /\ UNCHANGED reqs /\ \E u \in users, t \in UserIds, reason \in ReasonInputs,
                                         method \in Methods :
                  /\ ReportOutcome(u, t, reason, method) = "Ok" => Len(reports) < MaxReports
                  /\ report_user(u, t, reason, method)
RateUser == Idle /\ UNCHANGED reqs /\ \E u \in users, t \in UserIds, id \in ActivityIds, s \in ScoreInputs :
                rate_user(u, t, id, s)

\* Every specification below handles its requests one at a time, each as one
\* isolated unit of work.

\* the relationship ledger on its own: connections and blocks
NextRelations ==
    \/ Respond
    \/ SendConnection
    \/ AcceptConnection
    \/ RejectConnection
    \/ BlockUser
    \/ UnblockUser

SpecRelations == Init /\ [][NextRelations]_vars

\* the relationship ledger with room for more than one Block
NextBlocks ==
    \/ Respond
    \/ SendConnection
    \/ AcceptConnection
    \/ BlockUserLedger
    \/ UnblockUser

SpecBlocks == Init /\ [][NextBlocks]_vars

\* the activity lifecycle: creation, re-save, join, the clock and blocks
NextActivities ==
    \/ Tick
    \/ Respond
    \/ CreateActivity
    \/ ResaveActivity
    \/ JoinActivity
    \/ BlockUser
    \/ UnblockUser

SpecActivities == Init /\ [][NextActivities]_vars

\* rating: activities that are joined and become past, blocks, and rate
NextRatings ==
    \/ Tick
    \/ Respond
    \/ CreateActivity
    \/ JoinActivity
    \/ BlockUser
    \/ UnblockUser
    \/ RateUser

SpecRatings == Init /\ [][NextRatings]_vars

\* the same with one more registered user, so that one creator can receive
\* three ratings
SpecStats == InitAll /\ [][NextRatings]_vars

\* the three cross-user interactions and the blocks that forbid them
NextInteractions ==
    \/ Tick
    \/ Respond
    \/ CreateActivity
    \/ JoinActivity
    \/ SendConnection
    \/ BlockUser
    \/ UnblockUser
    \/ RateUser

SpecInteractions == Init /\ [][NextInteractions]_vars

(* ---------------------- requests handled concurrently ----------------- *)
\* Each worker handles one request at a time, statement by statement; the
\* statements of different workers interleave.  Statements outside
\* transaction.atomic() are committed as they execute; inside it the worker
\* reads what is committed plus its own writes, and its writes become visible
\* to the others at commit (READ COMMITTED).

\* the scores posted by the concurrent requests
RaceScores == {"4", "5"}

Request(pc, op, u, t, id, s) ==
    [pc |-> pc, op |-> op, actor |-> u, target |-> t, activity |-> id, score |-> s,
     outcome |-> {}, row |-> 0, inserted |-> FALSE, locked |-> FALSE,
     stats |-> [total_count |-> 0, avg_score |-> -1]]

Done(req, out) == [req EXCEPT !.pc = "done", !.outcome = out]

InFlight(p) == reqs[p].pc \notin {"idle", "done"}

\* the worker returns its response and is free again
Finish(p) ==
    /\ reqs[p].pc = "done"
    /\ reqs' = [reqs EXCEPT ![p] = IdleReq]
    /\ UNCHANGED <<now, tables, result>>

\* views.send_connection up to the lookup of existing_connection (line 193)
SendRead(p, u, r) ==
    LET out == SendOutcome(connections, u, r)
        req == Request("send_write", "send_connection", u, r, NoActivity, "")
    IN  /\ reqs[p].pc = "idle"
        /\ out = "Create" =>
              Len(connections) + Cardinality({q \in Procs : reqs[q].pc = "send_write"})
                  < MaxConnections
        /\ reqs' = [reqs EXCEPT ![p] =
                      IF out \in {"Create", "Reset"}
                      THEN [req EXCEPT !.row = FirstRow(connections, u, r)]
                      ELSE Done(req, {out})]
        /\ UNCHANGED <<now, tables, result>>

\* views.send_connection from line 209 on: the save of the Rejected row read
\* before, or Connection.objects.create
SendWriteStep(p) ==
    LET req == reqs[p]
        cs == SendWrite(connections, req.row, req.actor, req.target)
    IN  /\ req.pc = "send_write"
        /\ connections' = cs
        /\ reqs' = [reqs EXCEPT ![p] =
                      Done(req, IF cs = connections THEN {"ServerError"} ELSE {"Ok"})]
        /\ UNCHANGED <<now, users, reports, profiles, activities, blocks, ratings, result>>

\* views.report_user up to its last test (line 357): the duplicate test reads
\* the Report table as it is now
ReportRead(p, u, t, reason, method) ==
    LET out == ReportOutcome(u, t, reason, method)
        req == [pc |-> "report_write", op |-> "report_user", actor |-> u, target |-> t,
                reason |-> reason, outcome |-> {}]
    IN  /\ reqs[p].pc = "idle"
        /\ out = "Ok" =>
              Len(reports) + Cardinality({q \in Procs : reqs[q].pc = "report_write"})
                  < MaxReports
        /\ reqs' = [reqs EXCEPT ![p] = IF out = "Ok" THEN req ELSE Done(req, {out})]
        /\ UNCHANGED <<now, tables, result>>

\* views.report_user, lines 359-363: Report.objects.create; the Report
\* model carries no constraint (the Meta of models.py 397-399 belongs to no
\* model), so the INSERT always succeeds
ReportWriteStep(p) ==
    LET req == reqs[p]
    IN  /\ req.pc = "report_write"
        /\ reports' = Append(reports, [reporter |-> req.actor, reported_user |-> req.target,
                                       reason |-> Strip(req.reason)])
        /\ reqs' = [reqs EXCEPT ![p] = Done(req, {"Ok"})]
        /\ UNCHANGED <<now, users, profiles, activities, connections, blocks, ratings, result>>

\* views.block_user up to its duplicate test (line 387)
BlockRead(p, u, t) ==
    LET out == BlockOutcome(u, t)
        req == Request("block_delete", "block_user", u, t, NoActivity, "")
    IN  /\ reqs[p].pc = "idle"
        /\ out = "Ok" =>
              Len(blocks) + Cardinality({q \in Procs : reqs[q].pc \in {"block_delete",
                                                                      "block_insert"}})
                  < MaxLedgerBlocks
        /\ reqs' = [reqs EXCEPT ![p] = IF out = "Ok" THEN req ELSE Done(req, {out})]
        /\ UNCHANGED <<now, tables, result>>

\* the position, after the delete of the rows between u and t, of the row a
\* request read at position e: positions stand for primary keys, so a
\* request keeps the row it loaded; 0 when that row is gone, and then save()
\* finds nothing to UPDATE and INSERTs the row
RowAfterDelete(cs, u, t, e) ==
    LET kept == {i \in DOMAIN cs : {cs[i].sender, cs[i].receiver} # {u, t}}
    IN  IF e \in kept THEN Cardinality({i \in kept : i <= e}) ELSE 0

\* views.block_user, lines 389-393: the delete of the connections between
\* the two users, in both directions
BlockDeleteStep(p) ==
    LET req == reqs[p]
    IN  /\ req.pc = "block_delete"
        /\ connections' = DeleteConnections(connections, req.actor, req.target)
        /\ reqs' = [q \in Procs |->
                      IF q = p THEN [req EXCEPT !.pc = "block_insert"]
                      ELSE IF reqs[q].pc = "send_write"
                      THEN [reqs[q] EXCEPT !.row =
                              RowAfterDelete(connections, req.actor, req.target, @)]
                      ELSE reqs[q]]
        /\ UNCHANGED <<now, users, reports, profiles, activities, blocks, ratings, result>>

\* views.block_user, lines 395-398: Block.objects.create; unique_together of
\* (blocker, blocked_user) refuses a second row of the same ordered pair
BlockInsertStep(p) ==
    LET req == reqs[p]
    IN  /\ req.pc = "block_insert"
        /\ IF Blocked(req.actor, req.target)
           THEN /\ UNCHANGED blocks
                /\ reqs' = [reqs EXCEPT ![p] = Done(req, {"ServerError"})]
           ELSE /\ blocks' = Append(blocks, [blocker |-> req.actor,
                                             blocked_user |-> req.target])
                /\ reqs' = [reqs EXCEPT ![p] = Done(req, {"Ok"})]
        /\ UNCHANGED <<now, users, reports, profiles, activities, connections, ratings, result>>

\* the Rating a rate request builds (views.py 502-508)
RatingOf(req) ==
    [rater |-> req.actor, rated_user |-> req.target, activity |-> req.activity,
     score |-> IntOf(req.score)]

\* the Rating rows worker p reads: the committed ones and its own insert
VisibleRatings(p) ==
    IF reqs[p].pc # "idle" /\ reqs[p].inserted
    THEN Append(ratings, RatingOf(reqs[p])) ELSE ratings

\* the rate requests that may still insert a row
Inserting == {q \in Procs : InFlight(q) /\ reqs[q].op = "rate_user"}

\* views.rate_user, lines 442-497: the checks before the transaction
RateBegin(p, u, t, id, s) ==
    LET v == RateViewOutcome(ratings, u, t, id, s)
        req == Request("full_clean", "rate_user", u, t, id, s)
    IN  /\ reqs[p].pc = "idle"
        /\ v = "Pass" => Len(ratings) + Cardinality(Inserting) < MaxRatings
        /\ reqs' = [reqs EXCEPT ![p] = IF v = "Pass" THEN req ELSE Done(req, {v})]
        /\ UNCHANGED <<now, tables, result>>

\* views.rate_user, lines 500-524: rating.full_clean() inside the transaction
RateFullClean(p) ==
    LET req == reqs[p]
        errors == RatingFullClean(RatingOf(req), VisibleRatings(p))
    IN  /\ req.pc = "full_clean"
        /\ reqs' = [reqs EXCEPT ![p] =
                      IF errors = {} THEN [req EXCEPT !.pc = "save"] ELSE Done(req, errors)]
        /\ UNCHANGED <<now, tables, result>>

\* another transaction holds an uncommitted row with the same unique key:
\* the INSERT waits for it to end
InsertWaits(p) ==
    \E q \in Procs \ {p} :
        /\ InFlight(q) /\ reqs[q].op = "rate_user" /\ reqs[q].inserted
        /\ RatingUniqueConflict(RatingOf(reqs[p]), RatingOf(reqs[q]))

\* views.rate_user, line 527: rating.save(), that is full_clean() again and
\* the INSERT; an exception reaches line 537 and the transaction rolls back
RateSave(p) ==
    LET req == reqs[p]
    IN  /\ req.pc = "save"
        /\ ~InsertWaits(p)
        /\ reqs' = [reqs EXCEPT ![p] =
                      IF RatingSaveOk(RatingOf(req), ratings)
                      THEN [req EXCEPT !.pc = "signal_aggregate", !.inserted = TRUE]
                      ELSE Done(req, {"OperationFailed"})]
        /\ UNCHANGED <<now, tables, result>>

\* rate_user without its own call of update_rating_stats (line 532): the
\* write of the post_save receiver is the last one
AfterWrite_SignalOnly(pc) == "commit"

\* what follows the write of the post_save receiver, and of the view's call
AfterWrite(pc) == IF pc \in {"signal_aggregate", "signal_write"}
                  THEN "view_aggregate" ELSE "commit"

\* Profile.update_rating_stats, lines 66-75: the aggregate query; called by
\* the post_save receiver and then by the view, if the user has a profile
RateAggregate(p) ==
    LET req == reqs[p]
    IN  /\ req.pc \in {"signal_aggregate", "view_aggregate"}
        /\ reqs' = [reqs EXCEPT ![p] =
                      IF HasProfile(req.target)
                      THEN [req EXCEPT
                              !.pc = IF req.pc = "signal_aggregate"
                                     THEN "signal_write" ELSE "view_write",
                              !.stats = RatingStats(VisibleRatings(p), req.target)]
                      ELSE [req EXCEPT !.pc = AfterWrite(req.pc)]]
        /\ UNCHANGED <<now, tables, result>>

\* another transaction has written the Profile row and not committed: the
\* UPDATE waits for it to end
UpdateWaits(p) ==
    \E q \in Procs \ {p} :
        InFlight(q) /\ reqs[q].op = "rate_user" /\ reqs[q].locked
                    /\ reqs[q].target = reqs[p].target

\* Profile.update_rating_stats, lines 78-82: the UPDATE of the two fields
\* with the values computed from the aggregate read before
RateWrite(p) ==
    LET req == reqs[p]
    IN  /\ req.pc \in {"signal_write", "view_write"}
        /\ ~UpdateWaits(p)
        /\ reqs' = [reqs EXCEPT ![p] =
                      [req EXCEPT !.pc = AfterWrite(req.pc), !.locked = TRUE]]
        /\ UNCHANGED <<now, tables, result>>

\* the end of the atomic block: the insert and the profile write are committed
RateCommit(p) ==
    LET req == reqs[p]
    IN  /\ req.pc = "commit"
        /\ ratings' = Append(ratings, RatingOf(req))
        /\ profiles' = IF req.locked THEN WriteStats(profiles, req.target, req.stats)
                       ELSE profiles
        /\ reqs' = [reqs EXCEPT ![p] = Done(req, {"Ok"})]
        /\ UNCHANGED <<now, users, reports, activities, connections, blocks, result>>

\* the statements of rate_user inside "with transaction.atomic()"
InTransaction ==
    {"full_clean", "save", "signal_aggregate", "signal_write", "view_aggregate",
     "view_write", "commit"}

\* rate_user without transaction.atomic(): every statement is committed as
\* it executes, so what was written before the exception stays
RolledBack_Autocommit(db, req) ==
    [ratings |-> IF req.inserted THEN Append(db.ratings, RatingOf(req)) ELSE db.ratings,
     profiles |-> IF req.locked THEN WriteStats(db.profiles, req.target, req.stats)
                  ELSE db.profiles]

\* the committed tables db after an exception has left the atomic block of
\* the request: its insert and its profile write are undone
RolledBack(db, req) == db

\* a statement inside the atomic block raises an exception that is not a
\* ValidationError (the storage layer fails): the block is left, the
\* transaction is rolled back and "except Exception" (line 537) answers
RateFail(p) ==
    LET req == reqs[p]
        db == RolledBack([ratings |-> ratings, profiles |-> profiles], req)
    IN  /\ req.pc \in InTransaction
        /\ ratings' = db.ratings
        /\ profiles' = db.profiles
        /\ reqs' = [reqs EXCEPT ![p] = Done(req, {"OperationFailed"})]
        /\ UNCHANGED <<now, users, reports, activities, connections, blocks, result>>

\* the Profile row of user u
ProfileOf(ps, u) == ps[CHOOSE i \in DOMAIN ps : ps[i].user = u]

\* a request that has loaded a Profile row and will save it
ProfileRequest(op, u, row) ==
    [pc |-> "profile_save", op |-> op, actor |-> u, loaded |-> row, outcome |-> {}]

\* views.edit_profile (POST), lines 96-100: the profile of the user is loaded
\* and the valid form sets its own fields on the loaded instance
EditProfileLoad(p, u, city) ==
    /\ reqs[p].pc = "idle"
    /\ HasProfile(u)
    /\ reqs' = [reqs EXCEPT ![p] =
                  ProfileRequest("edit_profile", u, [ProfileOf(profiles, u) EXCEPT !.city = city])]
    /\ UNCHANGED <<now, tables, result>>

\* signals.save_user_profile, line 28: hasattr loads the profile of the User
\* that was saved (at login, for last_login)
SaveUserProfileLoad(p, u) ==
    /\ reqs[p].pc = "idle"
    /\ HasProfile(u)
    /\ reqs' = [reqs EXCEPT ![p] = ProfileRequest("save_user_profile", u, ProfileOf(profiles, u))]
    /\ UNCHANGED <<now, tables, result>>

\* form.save() of edit_profile (line 101) and instance.profile.save() of
\* save_user_profile (line 29): Model.save() without update_fields writes
\* every field of the loaded instance
ProfileSave(p) ==
    LET req == reqs[p]
    IN  /\ req.pc = "profile_save"
        /\ profiles' = [i \in DOMAIN profiles |->
                          IF profiles[i].user = req.actor THEN req.loaded ELSE profiles[i]]
        /\ reqs' = [reqs EXCEPT ![p] = Done(req, {"Ok"})]
        /\ UNCHANGED <<now, users, reports, activities, connections, blocks, ratings, result>>

Finishes == \E p \in Procs : Finish(p)
EditProfileLoads == Idle /\ \E p \in Procs, u \in users, city \in Cities : EditProfileLoad(p, u, city)
SaveUserProfileLoads == Idle /\ \E p \in Procs, u \in users : SaveUserProfileLoad(p, u)
ProfileSaves == Idle /\ \E p \in Procs : ProfileSave(p)
SendReads == \E p \in Procs, u \in users, r \in UserIds : SendRead(p, u, r)
SendWrites == \E p \in Procs : SendWriteStep(p)
RateBegins == \E p \in Procs, u \in users, t \in UserIds, id \in ActivityIds,
                 s \in RaceScores : RateBegin(p, u, t, id, s)
RateFullCleans == \E p \in Procs : RateFullClean(p)
RateSaves == \E p \in Procs : RateSave(p)
RateAggregates == \E p \in Procs : RateAggregate(p)
RateWrites == \E p \in Procs : RateWrite(p)
RateCommits == \E p \in Procs : RateCommit(p)
RateFails == \E p \in Procs : RateFail(p)
ReportReads == \E p \in Procs, u \in users, t \in UserIds, reason \in ReasonInputs,
                  method \in Methods : ReportRead(p, u, t, reason, method)
ReportWrites == \E p \in Procs : ReportWriteStep(p)

BlockReads == \E p \in Procs, u \in users, t \in UserIds : BlockRead(p, u, t)
BlockDeletes == \E p \in Procs : BlockDeleteStep(p)
BlockInserts == \E p \in Procs : BlockInsertStep(p)

\* connection requests racing with each other; reject is handled one at a time
NextConnectionRace ==
    \/ SendReads
    \/ SendWrites
    \/ Finishes
    \/ RejectConnection
    \/ Respond

SpecConnectionRace == Init /\ [][NextConnectionRace]_vars

\* connection requests racing with block requests
NextBlockRace ==
    \/ SendReads
    \/ SendWrites
    \/ BlockReads
    \/ BlockDeletes
    \/ BlockInserts
    \/ Finishes

SpecBlockRace == Init /\ [][NextBlockRace]_vars

\* rate requests racing with each other
NextRatingRace ==
    \/ RateBegins
    \/ RateFullCleans
    \/ RateSaves
    \/ RateAggregates
    \/ RateWrites
    \/ RateCommits
    \/ Finishes

SpecRatingRace == InitCompleted /\ [][NextRatingRace]_vars

\* rate requests racing with each other, any of which the storage layer may fail
NextRatingFailure ==
    \/ RateBegins
    \/ RateFullCleans
    \/ RateSaves
    \/ RateAggregates
    \/ RateWrites
    \/ RateCommits
    \/ RateFails
    \/ Finishes

SpecRatingFailure == InitCompleted /\ [][NextRatingFailure]_vars

\* a rate request with a score in 1..5, handled in one piece
RateUserInRange == Idle /\ UNCHANGED reqs /\ \E u \in users, t \in UserIds, id \in ActivityIds, s \in RaceScores :
                       rate_user(u, t, id, s)

\* profile saves racing with rate requests; each rate request is handled in
\* one piece, between the load and the save of a profile request or outside
NextProfileRace ==
    \/ Respond
    \/ RateUserInRange
    \/ EditProfileLoads
    \/ SaveUserProfileLoads
    \/ ProfileSaves
    \/ Finishes

SpecProfileRace == InitCompleted /\ [][NextProfileRace]_vars

\* rate requests, each handled in one piece, and the profile saves of
\* save_user_profile that may write statistics loaded before a rate
NextRecompute ==
    \/ Respond
    \/ RateUserInRange
    \/ SaveUserProfileLoads
    \/ ProfileSaves
    \/ Finishes

SpecRecompute == InitCompleted /\ [][NextRecompute]_vars

\* the life of an activity: created, joined, saved again, rated, among
\* connection requests and blocks
NextLifecycle ==
    \/ Tick
    \/ Respond
    \/ CreateActivity
    \/ ResaveActivity
    \/ JoinActivity
    \/ RateUserInRange
    \/ SendConnection
    \/ BlockUser

SpecLifecycle == Init /\ [][NextLifecycle]_vars

\* users registering, logging in and editing their profiles
NextUsers ==
    \/ Respond
    \/ Register
    \/ LoginView
    \/ EditProfile

SpecUsers == InitEmpty /\ [][NextUsers]_vars

\* reports, and the blocks that may stand between reporter and reported user
NextReports ==
    \/ Respond
    \/ ReportUser
    \/ BlockUser
    \/ UnblockUser

SpecReports == Init /\ [][NextReports]_vars

\* report requests racing with each other
NextReportRace ==
    \/ ReportReads
    \/ ReportWrites
    \/ Finishes

SpecReportRace == Init /\ [][NextReportRace]_vars

\* blocks made and removed around a completed activity, its ratings and the
\* connections of its users
NextUnblock ==
    \/ Respond
    \/ SendConnection
    \/ BlockUserLedger
    \/ UnblockUser
    \/ RateUserInRange

SpecUnblock == InitCompleted /\ [][NextUnblock]_vars

(* ----------------------------- properties ----------------------------- *)
\* this step handles a request of the kind op
Handled(op) == result = NoResult /\ result'.op = op

\* the Block rows between x and y, whichever of them is the blocker
BlocksBetween(x, y) ==
    {b \in Rows(blocks) : \/ b.blocker = x /\ b.blocked_user = y
                          \/ b.blocker = y /\ b.blocked_user = x}

\* the eligibility rules of a Rating, in the state in which it is created
Eligible(r) ==
    /\ r.rater # r.rated_user
    /\ r.activity \in DOMAIN activities
    /\ r.rated_user = activities[r.activity].creator
    /\ r.rater \in activities[r.activity].participants
    /\ activities[r.activity].date * DayLen + activities[r.activity].time < now
    /\ BlocksBetween(r.rater, r.rated_user) = {}

\* a completed activity of which both u and t are participants, with nothing
\* else in the way of u rating t
ParticipantRatesParticipant(u, t, id, s) ==
    /\ id \in DOMAIN activities
    /\ u # t
    /\ {u, t} \subseteq activities[id].participants
    /\ activities[id].date * DayLen + activities[id].time < now
    /\ \A i \in DOMAIN ratings : ~(ratings[i].rater = u /\ ratings[i].activity = id)
    /\ BlocksBetween(u, t) = {}
    /\ s \in {"4", "5"}

\* C1: every Rating satisfied the eligibility rules in the state in which it
\* was created (rater is not the rated user, the rated user is the creator of
\* the activity, the rater is a participant, the activity is past, no Block
\* between the two in either direction), and a participant rating another
\* participant of a completed activity fails with OnlyCreatorCanBeRated and
\* stores nothing.
C1_RatingsEligibleWhenCreated ==
    [][/\ \A i \in DOMAIN ratings' : i > Len(ratings) => Eligible(ratings'[i])
       /\ \A i \in DOMAIN ratings : i \in DOMAIN ratings' /\ ratings'[i] = ratings[i]
       /\ (Handled("rate_user")
            /\ ParticipantRatesParticipant(result'.actor, result'.target,
                                           result'.activity, result'.score))
          => /\ result'.outcome = {"OnlyCreatorCanBeRated"}
             /\ UNCHANGED <<ratings, profiles>>]_vars

\* C1 witness: a Rating is stored and the last request, a participant rating
\* another participant, was refused with OnlyCreatorCanBeRated
C1_Witness ==
    /\ Len(ratings) >= 1
    /\ result.op = "rate_user"
    /\ result.outcome = {"OnlyCreatorCanBeRated"}
    /\ {result.actor, result.target} \subseteq activities[result.activity].participants

\* the reason in the order the claim gives
FirstFailingAsClaimed(u, t, id) ==
    IF u = t THEN "SelfRatingForbidden"
    ELSE IF t # activities[id].creator THEN "OnlyCreatorCanBeRated"
    ELSE IF u \notin activities[id].participants THEN "NotAParticipant"
    ELSE IF ~(activities[id].date * DayLen + activities[id].time < now)
         THEN "ActivityNotCompleted"
    ELSE IF \E i \in DOMAIN ratings : ratings[i].rater = u /\ ratings[i].activity = id
         THEN "DuplicateRating"
    ELSE IF BlocksBetween(u, t) # {} THEN "BlockedRelationship"
    ELSE "none"

\* a rate request for a stored activity with an integer score in 1..5
WellFormedRate ==
    /\ Handled("rate_user")
    /\ result'.activity \in DOMAIN activities
    /\ result'.score \in {"4", "5"}

\* C3: a rate request with a score in 1..5 that fails eligibility checks
\* reports the reason of the first failing check in the order: rater is the
\* rated user, rated user is not the creator, rater is not a participant,
\* activity is not past, a Rating by the rater for the activity exists, a
\* Block exists either way.
C3_FirstFailureInClaimedOrder ==
    [][(WellFormedRate
         /\ FirstFailingAsClaimed(result'.actor, result'.target, result'.activity) # "none")
       => result'.outcome =
            {FirstFailingAsClaimed(result'.actor, result'.target, result'.activity)}]_vars

\* the Connection rows between x and y, whichever of them is the sender
ConnectionsBetween(cs, x, y) ==
    {i \in DOMAIN cs : {cs[i].sender, cs[i].receiver} = {x, y}}

\* C4: with requests handled one at a time, at most one Connection row
\* exists for each unordered pair of users, whatever its direction and status.
C4_OneConnectionPerPair ==
    \A x \in UserIds, y \in UserIds :
        Cardinality(ConnectionsBetween(connections, x, y)) <= 1

\* C4 witness: a request in the opposite direction of a Pending row was
\* answered without a second row for the pair
C4_Witness ==
    /\ result.op = "send_connection"
    /\ result.outcome = {"IncomingRequestExists"}
    /\ \E i \in DOMAIN connections :
          /\ connections[i].sender = result.target
          /\ connections[i].receiver = result.actor
    /\ Len(connections) = 2

\* C6: while a Block exists in either direction between two users, a join by
\* one into an activity of the other and a connection request between them
\* are refused as Forbidden, a rate of one by the other is refused, and none
\* of them changes any table.
C6_BlockedInteractionsRejected ==
    [][/\ (Handled("join_activity")
            /\ result'.activity \in DOMAIN activities
            /\ BlocksBetween(result'.actor, activities[result'.activity].creator) # {})
          => (result'.outcome = {"Forbidden"} /\ UNCHANGED tables)
       /\ (Handled("send_connection") /\ BlocksBetween(result'.actor, result'.target) # {})
          => (result'.outcome = {"Forbidden"} /\ UNCHANGED tables)
       /\ (Handled("rate_user") /\ BlocksBetween(result'.actor, result'.target) # {})
          => ("Ok" \notin result'.outcome /\ result'.outcome # {} /\ UNCHANGED tables)]_vars

\* C6 witness: a participant of a completed activity whom the creator has
\* blocked rated the creator and was refused because of the Block
C6_Witness ==
    /\ result.op = "rate_user"
    /\ result.outcome = {"BlockedRelationship"}
    /\ \E b \in Rows(blocks) : b.blocker = result.target /\ b.blocked_user = result.actor
    /\ result.target = activities[result.activity].creator

\* C7: right after a successful create_block(a, b) no Connection row between
\* a and b exists in either direction, and a request_connection(a, b) in
\* that state is refused as Forbidden.
C7_BlockSeversConnection ==
    (result.op = "block_user" /\ result.outcome = {"Ok"})
    => /\ ConnectionsBetween(connections, result.actor, result.target) = {}
       /\ SendOutcome(connections, result.actor, result.target) = "Forbidden"

\* C7 witness: a block that deleted a Connection row, another row remaining
C7_Witness ==
    /\ result.op = "block_user"
    /\ result.outcome = {"Ok"}
    /\ result.deleted = 1
    /\ Len(connections) = 1

\* C8 (as stated): in every reachable state an activity that is past is not
\* active.
C8_PastImpliesInactive ==
    \A id \in DOMAIN activities :
        (activities[id].date * DayLen + activities[id].time < now)
        => ~activities[id].is_active

\* the activity written by the save that this step handles, before and after
SavedNow == activities'[result'.activity]

\* C9: right after a save of an Activity (at creation or a later re-save) a
\* past activity is stored inactive, and a save of an activity that is not
\* past leaves is_active as it was (true for a new activity).
C9_SaveDeactivatesPast ==
    [][/\ (Handled("create_activity") /\ result'.outcome = {"Ok"})
          => SavedNow.is_active = ~(SavedNow.date * DayLen + SavedNow.time < now)
       /\ Handled("resave_activity")
          => IF SavedNow.date * DayLen + SavedNow.time < now
             THEN ~SavedNow.is_active
             ELSE SavedNow.is_active = activities[result'.activity].is_active]_vars

\* C9 witness: a re-saved activity that is past and inactive and has a
\* participant, so it was active when it was joined
C9_Witness ==
    /\ result.op = "resave_activity"
    /\ activities[result.activity].date * DayLen + activities[result.activity].time < now
    /\ ~activities[result.activity].is_active
    /\ activities[result.activity].participants # {}

RECURSIVE SumOver(_, _)
SumOver(rs, idx) ==
    IF idx = {} THEN 0
    ELSE LET i == CHOOSE j \in idx : TRUE IN rs[i].score + SumOver(rs, idx \ {i})

\* the positions of the Ratings that rs holds for the rated user u
Received(rs, u) == {i \in DOMAIN rs : rs[i].rated_user = u}

\* avg (in hundredths) is a nearest hundredth to the mean of the scores
IsRoundedMean(avg, rs, idx) ==
    LET d == 100 * SumOver(rs, idx) - avg * Cardinality(idx)
    IN  2 * d <= Cardinality(idx) /\ -2 * d <= Cardinality(idx)

\* C10: right after a successful rate of user u, Profile(u).total_ratings is
\* the number of Ratings whose rated user is u and Profile(u).average_rating
\* is the mean of their scores rounded to 2 decimals (4.0 and 1 after a
\* first and only rating of 4).
C10_StatsAfterRate ==
    [][(Handled("rate_user") /\ result'.outcome = {"Ok"})
       => \E i \in DOMAIN profiles' :
            /\ profiles'[i].user = result'.target
            /\ profiles'[i].total_ratings = Cardinality(Received(ratings', result'.target))
            /\ IsRoundedMean(profiles'[i].average_rating, ratings',
                             Received(ratings', result'.target))
            /\ (Len(ratings') = 1 /\ result'.score = "4")
               => (profiles'[i].average_rating = 400 /\ profiles'[i].total_ratings = 1)]_vars

\* C10 witness: a third rating of the same user, leaving a mean that needs
\* rounding (4.33 or 4.67)
C10_Witness ==
    /\ result.op = "rate_user"
    /\ result.outcome = {"Ok"}
    /\ \E i \in DOMAIN profiles :
          /\ profiles[i].user = result.target
          /\ profiles[i].total_ratings = 3
          /\ profiles[i].average_rating \in {433, 467}

\* the stored Ratings by rater u for activity id
RatingsBy(u, id) == {i \in DOMAIN ratings : ratings[i].rater = u /\ ratings[i].activity = id}

\* C2: at most one Rating is stored for every (rater, activity) pair, also
\* when two rate requests of the same rater for the same activity both pass
\* the duplicate check of the view before either inserts.
C2_OneRatingPerRaterAndActivity ==
    \A u \in UserIds, id \in ActivityIds : Cardinality(RatingsBy(u, id)) <= 1

\* C2 witness: a request that passed the duplicate check of the view and of
\* full_clean is about to save while the Rating of a concurrent request by
\* the same rater for the same activity has been committed
C2_Witness ==
    \E p \in Procs :
        /\ reqs[p].pc = "save"
        /\ RatingsBy(reqs[p].actor, reqs[p].activity) # {}

\* C5: once two concurrent request_connection calls in opposite directions
\* have both completed, at most one Connection row exists for the pair.
C5_OppositeRequestsOneRow ==
    \A p \in Procs, q \in Procs :
        (/\ reqs[p].pc = "done" /\ reqs[q].pc = "done"
         /\ reqs[p].op = "send_connection" /\ reqs[q].op = "send_connection"
         /\ reqs[p].actor = reqs[q].target /\ reqs[p].target = reqs[q].actor)
        => Cardinality(ConnectionsBetween(connections, reqs[p].actor, reqs[p].target)) <= 1

\* the state InitCompleted starts from
CompletedActivityReached ==
    /\ now = 1
    /\ activities = <<[creator |-> MaxUsers - 1, date |-> 0, time |-> 0,
                       is_active |-> TRUE, participants |-> 1..(MaxUsers - 2)]>>
    /\ blocks = <<>>
    /\ ratings = <<>>
    /\ result = NoResult

\* the statistics that ps stores for u are the count and the rounded mean of
\* the Ratings that rs holds for u (0 and 0 when there are none)
StatsMatch(ps, rs, u) ==
    \E i \in DOMAIN ps :
        /\ ps[i].user = u
        /\ ps[i].total_ratings = Cardinality(Received(rs, u))
        /\ IF Received(rs, u) = {} THEN ps[i].average_rating = 0
           ELSE IsRoundedMean(ps[i].average_rating, rs, Received(rs, u))

\* C11: when rate requests of different participants for the same creator
\* interleave (insert, aggregate read and profile write of each inside its own
\* transaction), then once they have completed the total_ratings and
\* average_rating of the creator are the count and the rounded mean of all
\* the stored Ratings of the creator.
C11_StatsAfterConcurrentRates ==
    (\A p \in Procs : ~InFlight(p)) => \A u \in users : StatsMatch(profiles, ratings, u)

\* C11 witness: one request has completed and its Rating is stored, while
\* the other one, of another rater for the same creator, has written the
\* profile with the count it aggregated before, which misses that Rating
C11_Witness ==
    \E p \in Procs, q \in Procs :
        /\ reqs[p].pc = "done" /\ reqs[p].outcome = {"Ok"}
        /\ reqs[q].pc = "view_aggregate" /\ reqs[q].locked
        /\ reqs[q].target = reqs[p].target /\ reqs[q].actor # reqs[p].actor
        /\ reqs[q].stats.total_count = 1
        /\ Cardinality(Received(ratings, reqs[q].target)) = 1

\* C12 (as stated): a save of a Profile by edit_profile or by
\* save_user_profile changes no average_rating and no total_ratings, and
\* after it, however it interleaves with a rate of the same user, the stored
\* statistics of the user are those recomputed from the Ratings of the user.
C12_ProfileSaveKeepsStats ==
    [][\A p \in Procs :
         (reqs[p].pc = "profile_save" /\ reqs'[p].pc = "done")
         => /\ \A i \in DOMAIN profiles :
                  /\ profiles'[i].average_rating = profiles[i].average_rating
                  /\ profiles'[i].total_ratings = profiles[i].total_ratings
            /\ StatsMatch(profiles', ratings', reqs[p].actor)]_vars

\* C13: if a step of the rating transaction fails after the Rating row has
\* been inserted, the transaction is rolled back: no Rating of the request is
\* stored, the statistics of the rated user are unchanged, and the caller gets
\* the generic operation-failed outcome; in no state is a Rating stored that
\* the statistics of its rated user do not count.
C13_FailureRollsBack ==
    [][/\ \A p \in Procs :
            (InFlight(p) /\ reqs[p].inserted /\ reqs'[p].pc = "done"
               /\ "Ok" \notin reqs'[p].outcome)
            => /\ reqs'[p].outcome = {"OperationFailed"}
               /\ ~RatingExists(ratings', reqs[p].actor, reqs[p].activity)
               /\ UNCHANGED <<ratings, profiles>>
       /\ \A u \in users : StatsMatch(profiles', ratings', u)]_vars

\* C13 witness: a request failed after its insert and its profile write, a
\* Rating of another rater being stored; no Rating of the request is stored
C13_Witness ==
    \E p \in Procs :
        /\ reqs[p].pc = "done" /\ reqs[p].outcome = {"OperationFailed"}
        /\ reqs[p].inserted /\ reqs[p].locked
        /\ ~RatingExists(ratings, reqs[p].actor, reqs[p].activity)
        /\ Len(ratings) = 1

\* the request handled by this step is a request_connection(s, r) to a
\* registered user r, and every row between s and r has the status st
SendFinds(st) ==
    /\ Handled("send_connection")
    /\ result'.target \in users
    /\ result'.actor # result'.target
    /\ BlocksBetween(result'.actor, result'.target) = {}
    /\ ConnectionsBetween(connections, result'.actor, result'.target) # {}
    /\ \A i \in ConnectionsBetween(connections, result'.actor, result'.target) :
          connections[i].status = st

\* C14: request_connection(s, r) fails with InvalidOperation when s = r and
\* with Forbidden when a Block exists either way, creating no row (no
\* Connection has sender = receiver); with no row for the pair it creates
\* Pending(s to r); with an Accepted row it reports AlreadyConnected; with a
\* Pending row it reports RequestAlreadySent if the sender of the row is s and
\* IncomingRequestExists otherwise; these three leave the row unchanged.
C14_RequestConnectionOutcomes ==
    [][/\ \A i \in DOMAIN connections' : connections'[i].sender # connections'[i].receiver
       /\ (Handled("send_connection") /\ result'.target \in users)
          => /\ result'.actor = result'.target
                => (result'.outcome = {"InvalidOperation"} /\ UNCHANGED tables)
             /\ BlocksBetween(result'.actor, result'.target) # {}
                => (result'.outcome = {"Forbidden"} /\ UNCHANGED tables)
             /\ (/\ result'.actor # result'.target
                 /\ BlocksBetween(result'.actor, result'.target) = {}
                 /\ ConnectionsBetween(connections, result'.actor, result'.target) = {})
                => /\ result'.outcome = {"Ok"}
                   /\ connections' = Append(connections,
                          [sender |-> result'.actor, receiver |-> result'.target,
                           status |-> "Pending"])
       /\ SendFinds("Accepted")
          => (result'.outcome = {"AlreadyConnected"} /\ UNCHANGED tables)
       /\ SendFinds("Pending")
          => /\ UNCHANGED tables
             /\ \A i \in ConnectionsBetween(connections, result'.actor, result'.target) :
                   result'.outcome = IF connections[i].sender = result'.actor
                                     THEN {"RequestAlreadySent"}
                                     ELSE {"IncomingRequestExists"}]_vars

\* C14 witness: the sender of an Accepted connection requested it again, was
\* told AlreadyConnected, and the row is still Accepted
C14_Witness ==
    /\ result.op = "send_connection"
    /\ result.outcome = {"AlreadyConnected"}
    /\ \E i \in DOMAIN connections :
          /\ connections[i].sender = result.actor
          /\ connections[i].receiver = result.target
          /\ connections[i].status = "Accepted"

DecidedAs(op, to) ==
    (Handled(op) /\ result'.activity \in DOMAIN connections)
    => IF connections[result'.activity].receiver # result'.actor
       THEN result'.outcome = {"Forbidden"} /\ UNCHANGED tables
       ELSE IF connections[result'.activity].status # "Pending"
       THEN result'.outcome = {"InvalidState"} /\ UNCHANGED tables
       ELSE /\ result'.outcome = {"Ok"}
            /\ connections' = [connections EXCEPT ![result'.activity].status = to]
            /\ UNCHANGED <<users, profiles, activities, blocks, ratings>>

\* C16: accept(connection, actor) changes the status to Accepted, and
\* reject(connection, actor) to Rejected, only when the actor is the receiver
\* of the connection and the status is Pending; otherwise the connection is
\* unchanged, and Forbidden (the actor is not the receiver) takes precedence
\* over InvalidState (the status is not Pending).
C16_OnlyReceiverDecidesPending ==
    [][/\ DecidedAs("accept_connection", "Accepted")
       /\ DecidedAs("reject_connection", "Rejected")]_vars

\* C16 witness: the sender of a connection that is already Accepted tried to
\* reject it and was answered Forbidden, not InvalidState
C16_Witness ==
    /\ result.op = "reject_connection"
    /\ result.outcome = {"Forbidden"}
    /\ result.activity \in DOMAIN connections
    /\ connections[result.activity].sender = result.actor
    /\ connections[result.activity].status = "Accepted"

\* the activity a is past at the current instant
PastNow(a) == a.date * DayLen + a.time < now

\* the first failing check of join(activity id, user u) in the order of the
\* claim; the two InvalidState outcomes are told apart by their message
FirstFailingJoinCheck(u, id) ==
    IF BlocksBetween(u, activities[id].creator) # {} THEN "Forbidden"
    ELSE IF ~activities[id].is_active THEN "InvalidState_Inactive"
    ELSE IF PastNow(activities[id]) THEN "InvalidState_Past"
    ELSE IF u = activities[id].creator THEN "InvalidOperation"
    ELSE IF u \in activities[id].participants THEN "AlreadyExists"
    ELSE "Ok"

\* C17: join(activity, user) reports the first failing check in the order:
\* Block either way between user and creator (Forbidden), activity not active
\* (InvalidState), activity past (InvalidState), user is the creator
\* (InvalidOperation), user already a participant (AlreadyExists, no state
\* change); only when all checks pass is the user added to the participants.
C17_JoinChecksInOrder ==
    [][(Handled("join_activity") /\ result'.activity \in DOMAIN activities)
       => /\ result'.outcome = {FirstFailingJoinCheck(result'.actor, result'.activity)}
          /\ IF FirstFailingJoinCheck(result'.actor, result'.activity) = "Ok"
             THEN /\ activities' = [activities EXCEPT ![result'.activity].participants =
                                        @ \cup {result'.actor}]
                  /\ UNCHANGED <<users, profiles, connections, blocks, ratings>>
             ELSE UNCHANGED tables]_vars

\* C17 witness: the creator of an activity that is past and was deactivated,
\* and that has a participant, tried to join it and was answered InvalidState
\* for the inactive activity, not InvalidOperation
C17_Witness ==
    /\ result.op = "join_activity"
    /\ result.outcome = {"InvalidState_Inactive"}
    /\ result.activity \in DOMAIN activities
    /\ activities[result.activity].creator = result.actor
    /\ PastNow(activities[result.activity])
    /\ activities[result.activity].participants # {}

\* C18: no user is added to the participants of an activity at a time when
\* the activity is past or inactive: a join on such an activity leaves the
\* participants unchanged and fails with InvalidState (with Forbidden when the
\* Block check, which comes first, fails), also when the activity is past and
\* its stored is_active is still true because it was not saved since.
C18_NoJoinWhenPastOrInactive ==
    [][/\ \A id \in DOMAIN activities :
            (id \in DOMAIN activities'
               /\ activities'[id].participants # activities[id].participants)
            => (activities[id].is_active /\ ~PastNow(activities[id]))
       /\ (/\ Handled("join_activity")
           /\ result'.activity \in DOMAIN activities
           /\ (PastNow(activities[result'.activity])
                  \/ ~activities[result'.activity].is_active))
          => /\ UNCHANGED tables
             /\ IF BlocksBetween(result'.actor, activities[result'.activity].creator) = {}
                THEN result'.outcome \in {{"InvalidState_Inactive"}, {"InvalidState_Past"}}
                ELSE result'.outcome = {"Forbidden"}]_vars

\* C18 witness: a join was refused as InvalidState on an activity that is
\* past while its stored is_active is still true
C18_Witness ==
    /\ result.op = "join_activity"
    /\ result.outcome = {"InvalidState_Past"}
    /\ result.activity \in DOMAIN activities
    /\ activities[result.activity].is_active
    /\ PastNow(activities[result.activity])
    /\ result.actor # activities[result.activity].creator

\* the posted scores that are integers outside 1..5
OutOfRange == {"0", "6"}

\* C19: a rate request of an otherwise eligible participant with an integer
\* score outside 1..5 (0 or 6) fails with InvalidScore, stores no Rating and
\* leaves average_rating and total_ratings of the rated user unchanged.
C19_OutOfRangeScoreRejected ==
    [][(/\ Handled("rate_user")
        /\ result'.score \in OutOfRange
        /\ Eligible([rater |-> result'.actor, rated_user |-> result'.target,
                     activity |-> result'.activity])
        /\ RatingsBy(result'.actor, result'.activity) = {})
       => /\ result'.outcome = {"InvalidScore"}
          /\ UNCHANGED tables]_vars

\* C19 witness: a participant rated the creator, who has one Rating already,
\* with the score 6 and was answered InvalidScore; only that one Rating is
\* stored and the statistics of the creator still count it alone
C19_Witness ==
    /\ result.op = "rate_user"
    /\ result.score = "6"
    /\ result.outcome = {"InvalidScore"}
    /\ result.activity \in DOMAIN activities
    /\ result.actor \in activities[result.activity].participants
    /\ result.target = activities[result.activity].creator
    /\ Len(ratings) = 1
    /\ \E i \in DOMAIN profiles :
          profiles[i].user = result.target /\ profiles[i].total_ratings = 1

\* C20: in every reachable state no Block has its blocker as its blocked
\* user and at most one Block exists per ordered (blocker, blocked_user) pair;
\* create_block(a, a) fails with InvalidOperation and a repeated
\* create_block(a, b) fails with AlreadyExists, both leaving Blocks and
\* Connections unchanged.
C20_BlocksUniqueAndNotSelf ==
    [][/\ \A i \in DOMAIN blocks' : blocks'[i].blocker # blocks'[i].blocked_user
       /\ \A i \in DOMAIN blocks', j \in DOMAIN blocks' : i # j => blocks'[i] # blocks'[j]
       /\ (Handled("block_user") /\ result'.actor = result'.target)
          => (result'.outcome = {"InvalidOperation"} /\ UNCHANGED tables)
       /\ (Handled("block_user")
            /\ [blocker |-> result'.actor, blocked_user |-> result'.target] \in Rows(blocks))
          => (result'.outcome = {"AlreadyExists"} /\ UNCHANGED tables)]_vars

\* C20 witness: a repeated create_block was answered AlreadyExists; the pair
\* has its one Block, the opposite pair has its own, and a Connection of
\* other users is stored
C20_Witness ==
    /\ result.op = "block_user"
    /\ result.outcome = {"AlreadyExists"}
    /\ Len(blocks) = 2
    /\ [blocker |-> result.actor, blocked_user |-> result.target] \in Rows(blocks)
    /\ [blocker |-> result.target, blocked_user |-> result.actor] \in Rows(blocks)
    /\ Len(connections) = 1

\* C21: remove_block(a, b) deletes the Block a to b if it exists and
\* succeeds as a no-op if it does not; it leaves a Block b to a, all
\* Connections, all participant sets and all Ratings unchanged (it neither
\* lifts the block of the other party nor restores a severed connection).
C21_UnblockRemovesOnlyOwnBlock ==
    [][(Handled("unblock_user") /\ result'.target \in users)
       => /\ result'.outcome = {"Ok"}
          /\ [blocker |-> result'.actor, blocked_user |-> result'.target] \notin Rows(blocks')
          /\ \A b \in Rows(blocks) :
                b # [blocker |-> result'.actor, blocked_user |-> result'.target]
                => b \in Rows(blocks')
          /\ Rows(blocks') \subseteq Rows(blocks)
          /\ Len(blocks') = Len(blocks)
                - Cardinality({i \in DOMAIN blocks :
                      blocks[i] = [blocker |-> result'.actor, blocked_user |-> result'.target]})
          /\ UNCHANGED <<users, profiles, activities, connections, ratings, reports>>]_vars

\* C21 witness: after remove_block(a, b) the Block b to a is the only Block
\* stored, no Connection between a and b exists while one of another pair
\* does, and a Rating is stored
C21_Witness ==
    /\ result.op = "unblock_user"
    /\ result.outcome = {"Ok"}
    /\ blocks = <<[blocker |-> result.target, blocked_user |-> result.actor]>>
    /\ ConnectionsBetween(connections, result.actor, result.target) = {}
    /\ Len(connections) = 1
    /\ Len(ratings) >= 1

\* the Report rows by u against t
ReportsBy(rs, u, t) == {i \in DOMAIN rs : rs[i].reporter = u /\ rs[i].reported_user = t}

\* the posted reason is empty once trimmed
Blank(reason) == reason \in {"", "  "}

\* C22: file_report(reporter, reported_user, reason) fails with
\* InvalidOperation when reporter = reported_user, with InvalidInput when the
\* trimmed reason is empty and with AlreadyExists when the reporter has
\* reported that user before, creating no Report in these cases (where two of
\* them apply, the self report is answered first and the repeated report
\* before the empty reason); otherwise it creates exactly one Report.  With
\* operations one at a time at most one Report exists per (reporter,
\* reported_user) pair and none has reporter = reported_user.
C22_FileReportOutcomes ==
    [][/\ \A i \in DOMAIN reports' : reports'[i].reporter # reports'[i].reported_user
       /\ \A u \in UserIds, t \in UserIds : Cardinality(ReportsBy(reports', u, t)) <= 1
       /\ (Handled("report_user") /\ result'.target \in users /\ result'.method = "POST")
          => IF result'.actor = result'.target
             THEN result'.outcome = {"InvalidOperation"} /\ UNCHANGED tables
             ELSE IF ReportsBy(reports, result'.actor, result'.target) # {}
             THEN result'.outcome = {"AlreadyExists"} /\ UNCHANGED tables
             ELSE IF Blank(result'.reason)
             THEN result'.outcome = {"InvalidInput"} /\ UNCHANGED tables
             ELSE /\ result'.outcome = {"Ok"}
                  /\ Len(reports') = Len(reports) + 1
                  /\ \A i \in DOMAIN reports : reports'[i] = reports[i]
                  /\ reports'[Len(reports')].reporter = result'.actor
                  /\ reports'[Len(reports')].reported_user = result'.target
                  /\ UNCHANGED <<users, profiles, activities, connections, blocks, ratings>>]_vars

\* C22 witness: a second report of the same user by the same reporter, with
\* a reason, was answered AlreadyExists; the pair has its one Report and the
\* opposite pair has its own
C22_Witness ==
    /\ result.op = "report_user"
    /\ result.method = "POST"
    /\ result.reason = "spam"
    /\ result.outcome = {"AlreadyExists"}
    /\ Len(reports) = 2
    /\ ReportsBy(reports, result.actor, result.target) # {}
    /\ ReportsBy(reports, result.target, result.actor) # {}

\* C23 (as stated): once two concurrent file_report requests of the same
\* reporter against the same user have both completed, having both passed
\* the duplicate check before either inserted, at most one Report is stored
\* for that pair.
C23_ConcurrentReportsOneRow ==
    \A p \in Procs, q \in Procs :
        (/\ p # q
         /\ reqs[p].pc = "done" /\ reqs[q].pc = "done"
         /\ reqs[p].op = "report_user" /\ reqs[q].op = "report_user"
         /\ reqs[p].actor = reqs[q].actor /\ reqs[p].target = reqs[q].target)
        => Cardinality(ReportsBy(reports, reqs[p].actor, reqs[p].target)) <= 1

\* the Profile rows of user u
ProfilesOf(ps, u) == {i \in DOMAIN ps : ps[i].user = u}

\* C24: after a User is created exactly one Profile exists for that user, and
\* no later save of the same User creates a second Profile or removes the
\* existing one (and no Profile exists for a user that is not registered).
C24_OneProfilePerUser ==
    \A u \in UserIds :
        Cardinality(ProfilesOf(profiles, u)) = IF u \in users THEN 1 ELSE 0

\* C24 witness: a user whose profile was edited logged in again, which saves
\* the User once more, while other users are registered
C24_Witness ==
    /\ result.op = "login_view"
    /\ Cardinality(users) = MaxUsers
    /\ \E i \in DOMAIN profiles :
          profiles[i].user = result.actor /\ profiles[i].city = "Pune"

\* the profiles after one recompute(u) in the current state
Recomputed(u) == update_rating_stats(profiles, ratings, u)

\* C25: recompute(user) is idempotent and total: a second call with no
\* Rating created in between leaves average_rating and total_ratings as the
\* first call left them (so the two calls of a rate leave what one call
\* leaves), and for a user with no Ratings it writes 0.0 and 0.
C25_RecomputeIdempotentAndTotal ==
    [][/\ \A u \in users :
            /\ update_rating_stats(Recomputed(u), ratings, u) = Recomputed(u)
            /\ DOMAIN Recomputed(u) = DOMAIN profiles
            /\ Received(ratings, u) = {}
               => \E i \in DOMAIN profiles :
                     /\ Recomputed(u)[i].user = u
                     /\ Recomputed(u)[i].average_rating = 0
                     /\ Recomputed(u)[i].total_ratings = 0
       /\ (Handled("rate_user") /\ result'.outcome = {"Ok"})
          => profiles' = update_rating_stats(profiles, ratings', result'.target)]_vars

\* C25 witness: the stored statistics of a user with two Ratings are stale
\* (a profile save wrote the count 1 back), so a recompute has something
\* to change, and no response is outstanding
C25_Witness ==
    /\ result = NoResult
    /\ \E i \in DOMAIN profiles :
          /\ Cardinality(Received(ratings, profiles[i].user)) = 2
          /\ profiles[i].total_ratings = 1

\* the operations that name a user, an activity, a connection by its id
NamesUser == {"send_connection", "block_user", "unblock_user", "report_user", "rate_user"}
NamesActivity == {"join_activity", "rate_user"}
NamesConnection == {"accept_connection", "reject_connection"}

\* the request handled by this step names an entity that is not stored
NamesMissingEntity ==
    /\ result = NoResult
    /\ \/ result'.op \in NamesUser /\ result'.target \notin users
       \/ result'.op \in NamesActivity /\ result'.activity \notin DOMAIN activities
       \/ result'.op \in NamesConnection /\ result'.activity \notin DOMAIN connections

\* C26 (as stated): an operation that references a nonexistent activity,
\* user or connection ends with the NotFound outcome and changes no state;
\* this holds for rate with an unknown activity id or user id as it does for
\* join, request_connection, accept, reject, file_report, create_block and
\* remove_block.
C26_MissingEntityIsNotFound ==
    [][NamesMissingEntity => (result'.outcome = {"NotFound"} /\ UNCHANGED tables)]_vars

\* this step is a successful create_block between the two users x and y
BlocksPair(x, y) ==
    /\ Handled("block_user")
    /\ result'.outcome = {"Ok"}
    /\ {result'.actor, result'.target} = {x, y}

\* C27: an Accepted connection is terminal: no accept, reject or
\* request_connection changes its status, sender or receiver, and the only
\* operation after which it no longer exists is a create_block between its
\* two parties.
C27_AcceptedIsTerminal ==
    [][\A i \in DOMAIN connections :
         connections[i].status = "Accepted"
         => IF BlocksPair(connections[i].sender, connections[i].receiver)
            THEN ConnectionsBetween(connections', connections[i].sender,
                                    connections[i].receiver) = {}
            ELSE \E j \in DOMAIN connections' : connections'[j] = connections[i]]_vars

\* C27 witness: the receiver of an Accepted connection tried to reject it
\* and was answered InvalidState; the connection is still Accepted
C27_Witness ==
    /\ result.op = "reject_connection"
    /\ result.outcome = {"InvalidState"}
    /\ result.activity \in DOMAIN connections
    /\ connections[result.activity].receiver = result.actor
    /\ connections[result.activity].status = "Accepted"

\* C28: with requests handled one at a time, in every reachable state no
\* Connection row of any status exists between two users while a Block
\* exists between them in either direction.
C28_NoConnectionAcrossBlock ==
    \A x \in UserIds, y \in UserIds :
        BlocksBetween(x, y) # {} => ConnectionsBetween(connections, x, y) = {}

\* C28 witness: a blocked user asked to connect with the user who blocked
\* them and was refused; the Block stands and no row joins the two
C28_Witness ==
    /\ result.op = "send_connection"
    /\ result.outcome = {"Forbidden"}
    /\ Blocked(result.target, result.actor)
    /\ ~Blocked(result.actor, result.target)
    /\ ConnectionsBetween(connections, result.actor, result.target) = {}
    /\ connections # <<>>

\* C29 (as stated): once a request_connection(a, b) and a concurrent
\* create_block(b, a) have both completed, the first having passed its block
\* check and written its row and the second having deleted the connections
\* and inserted its Block, no Connection row exists between a and b while
\* the Block b to a exists.
C29_RaceLeavesNoConnectionAcrossBlock ==
    \A p \in Procs, q \in Procs :
        (/\ reqs[p].pc = "done" /\ reqs[q].pc = "done"
         /\ reqs[p].op = "send_connection" /\ reqs[q].op = "block_user"
         /\ reqs[p].outcome = {"Ok"} /\ reqs[q].outcome = {"Ok"}
         /\ reqs[q].actor = reqs[p].target /\ reqs[q].target = reqs[p].actor
         /\ Blocked(reqs[q].actor, reqs[q].target))
        => ConnectionsBetween(connections, reqs[p].actor, reqs[p].target) = {}

\* C30: in every reachable state the creator of an activity is not a member
\* of that activity's participant set, and no Rating has the creator of its
\* activity as its rater.
C30_CreatorNeverParticipates ==
    /\ \A id \in DOMAIN activities :
           activities[id].creator \notin activities[id].participants
    /\ \A i \in DOMAIN ratings :
           ratings[i].rater # activities[ratings[i].activity].creator

\* C30 witness: the creator asked to join their own open activity, which
\* others had joined, and was refused; the participants do not hold the creator
C30_Witness ==
    /\ result.op = "join_activity"
    /\ result.outcome = {"InvalidOperation"}
    /\ result.activity \in DOMAIN activities
    /\ activities[result.activity].creator = result.actor
    /\ activities[result.activity].participants # {}
    /\ result.actor \notin activities[result.activity].participants

\* C31: the is_active flag of an activity never changes from false to true
\* under create, save, join, rate, block and connection operations:
\* deactivation is permanent.
C31_DeactivationIsPermanent ==
    [][\A id \in DOMAIN activities :
         ~activities[id].is_active
         => (id \in DOMAIN activities' /\ ~activities'[id].is_active)]_vars

\* C31 witness: a participant rated the creator of an activity that had been
\* deactivated by a save; the activity is still inactive
C31_Witness ==
    /\ result.op = "rate_user"
    /\ result.outcome = {"Ok"}
    /\ ~activities[result.activity].is_active
    /\ RatingsBy(result.actor, result.activity) # {}

\* C32 (as stated): an activity created through create_activity is never
\* already past at the moment it is stored, and every newly created activity
\* is stored with is_active = true.
C32_CreatedActivityIsNotPast ==
    [][(Handled("create_activity") /\ result'.outcome = {"Ok"})
       => (~is_past(SavedNow) /\ SavedNow.is_active)]_vars

====
